---- MODULE Spec2Model ----
(***************************************************************************)
(* Model of the audio capture -> window buffer -> transcription pipeline   *)
(* of meet-transcription-bot:                                              *)
(*   src/audio/processor.py      AudioProcessor (window buffer)            *)
(*   src/audio/audio_manager.py  AudioManager   (capture session)          *)
(*   src/audio/capture.py        AudioCapture   (device handle)            *)
(*   src/transcription/engine.py TranscriptionEngine                       *)
(*                                                                         *)
(* Units.  Durations are in milliseconds (the code uses float seconds),    *)
(* the wall clock is in whole seconds (the resolution of the artifact      *)
(* file names), confidences are in tenths (9 stands for 0.9) and energies  *)
(* in hundredths (30 stands for 0.30).                                     *)
(*                                                                         *)
(* Scheduling.  AudioManager dispatches with asyncio.create_task, so its   *)
(* methods run on the thread of the event loop: a method call is one       *)
(* atomic step, and a transcription task is cut at its awaits.             *)
(***************************************************************************)
EXTENDS Integers, Sequences, FiniteSets, TLC

(* ------------------------------ bounds --------------------------------- *)
MaxChunks == 3        \* chunks delivered in one behaviour
MaxTime == 2          \* last second of the wall clock
MaxSessions == 2      \* start() calls that take effect
MaxDirectCalls == 2   \* transcribe_audio calls from outside the session
MaxProcOps == 4       \* calls on a stand-alone AudioProcessor
MaxReads == 3         \* device reads of one reader
MaxEnergy == 100      \* largest energy given to _identify_speaker, in hundredths
MaxLog == 3           \* longest result log given to the summary and the report
MaxMeetings == 2      \* rows of the Meeting table

(* -------------------------- program constants -------------------------- *)
target_duration == 5000        \* settings.transcription.interval_seconds
DefaultConfidence == 9         \* confidence = 0.9
ZeroConfidence == 0            \* confidence = 0.0

Inaudible == "[Inaudible]"
ErrorTranscripcion == "[Error de transcripción]"
ErrorGeneric == "[Error]"
Language == "es-ES"
Absent == "absent"             \* a key the result dict does not have

(* ------------------------------- inputs -------------------------------- *)
\* duration of a delivered chunk: two chunks reach the window exactly
\* (2500 + 2500) or pass it (2500 + 3000, 3000 + 3000)
ChunkDurations == {2500, 3000}
\* the type of chunk.data: AudioChunk declares bytes (what stream.read
\* returns), add_chunk declares a numpy array
DataKinds == {"bytes", "ndarray"}
MeetingIds == {0, 1}
RawTexts == {"", "hola"}       \* what recognize_google returns
EnhancedTexts == {"Hola."}     \* what the enhancement LLM returns
Energies == {70}               \* energy of an artifact, in hundredths
Styles == {"FORMAL", "TECNICO", "CASUAL"}

Paths == [m : MeetingIds, t : 1..MaxTime]
DirectPath == [m |-> 1, t |-> 1]

NoArtifact == <<>>
NoMeeting == -1                \* meeting_id is None
NoTime == 0                    \* start_time is None
NoFlush == [n |-> 0, caller |-> "none", durBefore |-> 0, durAfter |-> 0,
            lenAfter |-> 0, wav |-> NoArtifact, task |-> 0]
NoStart == [openOk |-> TRUE, raised |-> FALSE, ignored |-> FALSE, requested |-> NoMeeting]
DbMeetings == 1..MaxMeetings   \* the ids the Meeting table hands out
NoDb == [status |-> [m \in DbMeetings |-> "none"], started |-> [m \in DbMeetings |-> FALSE],
         last |-> [op |-> "none", meeting |-> 0, code |-> 0, started |-> FALSE]]
NoRead == [n |-> 0, pc |-> "idle", outcome |-> "none", result |-> "none", failures |-> 0,
           recordingAfter |-> FALSE, streamAfter |-> FALSE]
NoLoop == [outcome |-> "none", failures |-> 0, lenBefore |-> 0, lenAfter |-> 0,
           pcAfter |-> "none", streamAfter |-> "none"]
NoRecorder == [is_recording |-> FALSE, stream |-> "none", current_audio_data |-> <<>>,
               reads |-> 0, starts |-> 0, record |-> "none", periodic |-> "none",
               caller |-> "idle", copy |-> <<>>, saved |-> <<>>, appended |-> <<>>,
               lastLoop |-> NoLoop]
NoThread == [pc |-> "idle", chunk |-> <<>>, acc |-> 0, wav |-> <<>>]
NoThreads == [callback |-> NoThread, stopper |-> NoThread, accepted |-> <<>>,
              flushedEmpty |-> FALSE]
NoDigest == [log |-> <<>>, op |-> "none", llmCalls |-> 0, transcript |-> <<>>,
             message |-> Absent, lines |-> <<>>, segments |-> 0, words |-> 0, mean |-> 0]
NoCall == [feat |-> 0, energy |-> 0, text |-> Absent, style |-> Absent, label |-> Absent, done |-> FALSE]
NoResult == [text |-> Absent, confidence |-> ZeroConfidence, language |-> Absent,
             speaker |-> Absent, error |-> Absent]

VARIABLES
    \* TranscriptionEngine
    use_ai_enhancement,   \* self.use_ai_enhancement
    llm,                  \* self.llm is not None
    enable_speaker_identification, \* settings.transcription.enable_speaker_identification
    transcription_cache,  \* self.transcription_cache: [defined, entries]
    sttCalls,             \* number of recognize_google calls per artifact path
    tasks,                \* the transcribe_audio calls: dispatched tasks and direct calls
    directCalls,          \* number of direct calls made
    \* AudioManager / AudioCapture / AudioProcessor
    is_active, meeting_id, start_time,
    is_recording,         \* capture.is_recording (stream open)
    audio_buffer, buffer_duration,
    transcriptions,       \* the result log
    data_kind,            \* the type of the data of the chunks the capture delivers
    \* environment and history
    now, chunkCount, sessions,
    lastFlush,            \* the last call of process_buffer
    artifacts,            \* the artifacts process_buffer returned, in order, and
                          \* whether clear_buffer was called from outside
    lastStart,            \* how the last start() that took effect ended, whether the
                          \* last start() or stop() returned at its is_active check,
                          \* and the meeting the last start() was called with
    stream,               \* capture.stream is not None
    lastRead,             \* the caller of AudioCapture.read_chunk: its position
                          \* and what its last call returned
    rec,                  \* the thread-based manager of capture.py and its threads
    th,                   \* the capture-callback thread and the thread of stop()
    cls,                  \* a call of _identify_speaker: its inputs and its label
    digest,               \* a call of generate_meeting_summary or of
                          \* format_transcription: its log and what it produced
    lastLevel,            \* how the last call of get_audio_level ended
    db                    \* the Meeting table (status of each row, and whether its
                          \* transcription was started and not stopped since) and the
                          \* response of the last meeting endpoint

engineVars == <<use_ai_enhancement, llm, enable_speaker_identification,
                transcription_cache, sttCalls, tasks, directCalls>>
sessionVars == <<is_active, meeting_id, start_time, is_recording, transcriptions, data_kind, sessions>>
procVars == <<audio_buffer, buffer_duration, lastFlush, chunkCount>>
captureVars == <<lastStart, stream>>
outVars == <<digest, lastLevel, db>>
auxVars == <<lastRead, rec, th, cls, outVars>>
vars == <<engineVars, sessionVars, procVars, now, artifacts, captureVars, auxVars>>

(* ============================ AudioProcessor =========================== *)
Proc == [audio_buffer |-> audio_buffer, buffer_duration |-> buffer_duration]

\* AudioProcessor.add_chunk
add_chunk_keeps_duration(P, c) ==
    [audio_buffer |-> Append(P.audio_buffer, c), buffer_duration |-> P.buffer_duration]
add_chunk(P, c) ==
    [audio_buffer |-> Append(P.audio_buffer, c),
     buffer_duration |-> P.buffer_duration + c.duration]

\* AudioProcessor.clear_buffer
clear_buffer(P) == [audio_buffer |-> <<>>, buffer_duration |-> 0]

\* AudioProcessor.get_buffer_duration
get_buffer_duration(P) == P.buffer_duration

\* np.concatenate(self.audio_buffer): a bytes object is a zero-dimensional
\* array, and numpy raises ValueError on it; arrays concatenate
ConcatenateOk(buf) == \A i \in DOMAIN buf : buf[i].kind = "ndarray"

\* the artifact: the payloads of the buffered chunks, in buffer order
ConcatenateReversed(buf) == [i \in DOMAIN buf |-> buf[Len(buf) + 1 - i].id]
Concatenate(buf) == [i \in DOMAIN buf |-> buf[i].id]

\* process_buffer when a failed encoding empties the buffer as well
process_buffer_clears_on_failure(P) ==
    IF P.audio_buffer = <<>>
    THEN [proc |-> P, wav |-> NoArtifact]
    ELSE IF ConcatenateOk(P.audio_buffer)
         THEN [proc |-> clear_buffer(P), wav |-> Concatenate(P.audio_buffer)]
         ELSE [proc |-> clear_buffer(P), wav |-> NoArtifact]
\* AudioProcessor.process_buffer: the processor after the call and the
\* value returned (NoArtifact for None)
process_buffer(P) ==
    IF P.audio_buffer = <<>>
    THEN [proc |-> P, wav |-> NoArtifact]
    ELSE IF ConcatenateOk(P.audio_buffer)
         THEN [proc |-> clear_buffer(P), wav |-> Concatenate(P.audio_buffer)]
         ELSE [proc |-> P, wav |-> NoArtifact]

RECURSIVE SumDurations(_)
SumDurations(buf) ==
    IF buf = <<>> THEN 0 ELSE buf[1].duration + SumDurations(Tail(buf))

(* ========================= TranscriptionEngine ========================= *)
\* TranscriptionEngine.__init__: requested is the use_ai_enhancement
\* argument (or the setting), hasKey is settings.openai_api_key, ctorOk
\* is whether LLM(...) returns.  The constructor assigns recognizer,
\* language, use_ai_enhancement and llm, and no transcription_cache.
EngineInit(requested, hasKey, ctorOk) ==
    IF requested /\ hasKey
    THEN IF ctorOk
         THEN [use_ai_enhancement |-> TRUE, llm |-> TRUE, cacheDefined |-> FALSE]
         ELSE [use_ai_enhancement |-> FALSE, llm |-> FALSE, cacheDefined |-> FALSE]
    ELSE [use_ai_enhancement |-> requested, llm |-> FALSE, cacheDefined |-> FALSE]

\* the outcomes of recognize_google
SttOutcomes ==
    [kind : {"text"}, text : RawTexts]
    \cup [kind : {"UnknownValueError", "RequestError", "OtherError"}, text : {Absent}]

\* the outcomes of llm.async_generate in _enhance_transcription
EnhanceRaises == "raise"
EnhanceOutcomes == EnhancedTexts \cup {EnhanceRaises}

\* the outcomes of _extract_audio_features' body: an energy, or a failure
ExtractFailed == -1
FeatureOutcomes == Energies \cup {ExtractFailed}

\* the outcomes of llm.async_generate in _identify_speaker
StyleRaises == "raise"
StyleOutcomes == Styles \cup {StyleRaises}

\* TranscriptionEngine._extract_audio_features: the energy of the features
\* returned; a failure is caught and gives the zeroed features
extract_energy(f) == IF f = ExtractFailed THEN 0 ELSE f

\* the thresholds taken inclusively
_simple_speaker_identification_inclusive(energy) ==
    IF energy <= 30 THEN "Hablante 1"
    ELSE IF energy <= 60 THEN "Hablante 2"
    ELSE "Hablante 3"
\* TranscriptionEngine._simple_speaker_identification
_simple_speaker_identification(energy) ==
    IF energy < 30 THEN "Hablante 1"
    ELSE IF energy < 60 THEN "Hablante 2"
    ELSE "Hablante 3"

\* "Participante " + str(int(energy * 3) + 1)
Participante(energy) ==
    LET n == ((energy * 3) \div 100) + 1
    IN  IF n = 1 THEN "Participante 1"
        ELSE IF n = 2 THEN "Participante 2"
        ELSE IF n = 3 THEN "Participante 3"
        ELSE "Participante 4"

\* the condition of the contextual branch of _identify_speaker; a text
\* that is None or empty is false
UsesStyle(text) ==
    use_ai_enhancement /\ llm /\ text # Absent /\ text # "" /\ text # Inaudible

\* the contextual branch with the presenter from energy 0.5 on
styled_speaker_inclusive(energy, style) ==
    IF style = StyleRaises THEN _simple_speaker_identification(energy)
    ELSE IF style \in {"FORMAL", "TECNICO"}
         THEN (IF energy >= 50 THEN "Presentador" ELSE "Moderador")
         ELSE Participante(energy)
\* the contextual branch of _identify_speaker, given the outcome of the
\* style request
styled_speaker(energy, style) ==
    IF style = StyleRaises THEN _simple_speaker_identification(energy)
    ELSE IF style \in {"FORMAL", "TECNICO"}
         THEN (IF energy > 50 THEN "Presentador" ELSE "Moderador")
         ELSE Participante(energy)

\* _identify_speaker without its handler of a failed style request: the
\* exception leaves the call
_identify_speaker_propagates(energy, text, style) ==
    IF UsesStyle(text)
    THEN (IF style = StyleRaises THEN StyleRaises ELSE styled_speaker(energy, style))
    ELSE _simple_speaker_identification(energy)
\* TranscriptionEngine._identify_speaker on the energy of the features, the
\* text and the outcome of the style request (used in the contextual branch)
_identify_speaker(energy, text, style) ==
    IF UsesStyle(text) THEN styled_speaker(energy, style)
    ELSE _simple_speaker_identification(energy)

\* the condition under which transcribe_audio awaits _enhance_transcription
UsesEnhancement(text) == use_ai_enhancement /\ llm /\ text # ""

\* TranscriptionEngine._enhance_transcription: any failure returns the text
_enhance_transcription(text, out) == IF out = EnhanceRaises THEN text ELSE out

\* the exception classes the outer handler of transcribe_audio catches:
\* "except Exception" catches every exception the body can raise
ExceptionKinds == {"OSError", "OtherError", "AttributeError"}
OuterCatchesOnlyIO(exc) == exc = "OSError"
OuterCatches(exc) == exc \in ExceptionKinds

\* a call of transcribe_audio or one of its suspended states; session,
\* flushedAt and startedAt record the session and the clock at the dispatch
NewTask(origin, path, ts) ==
    [origin |-> origin, path |-> path, ts |-> ts, pc |-> "created",
     session |-> sessions, flushedAt |-> now, startedAt |-> start_time,
     stt |-> "none", raw |-> Absent, enhanced |-> Absent,
     text |-> Absent, confidence |-> ZeroConfidence, energy |-> 0,
     result |-> NoResult, raised |-> FALSE]

\* the call is over: its locals (text, confidence, energy) are gone; stt,
\* raw and enhanced stay as the record of what the capabilities answered
Done(t) ==
    [t EXCEPT !.pc = "done", !.text = Absent, !.confidence = ZeroConfidence, !.energy = 0]

\* the outer handler: log and return the generic error sentinel; an
\* exception it does not catch leaves transcribe_audio
Outer(t, exc) ==
    IF OuterCatches(exc)
    THEN [Done(t) EXCEPT !.result = [text |-> ErrorGeneric, confidence |-> ZeroConfidence,
                                     language |-> Absent, speaker |-> Absent, error |-> exc]]
    ELSE [Done(t) EXCEPT !.raised = TRUE]

\* "self.transcription_cache[audio_path] = result" and "return result":
\* reading an attribute the object does not have raises AttributeError
StoreAndReturn(t, result) ==
    IF transcription_cache.defined
    THEN [Done(t) EXCEPT !.result = result]
    ELSE Outer(t, "AttributeError")

\* the cache after the step that brought a call to state t: the store is
\* reached by the calls that return their own result
CacheAfter(t) ==
    IF transcription_cache.defined /\ t.pc = "done" /\ ~t.raised /\ t.result.error = Absent
    THEN [transcription_cache EXCEPT !.entries[t.path] = t.result]
    ELSE transcription_cache

BaseResult(t) ==
    [text |-> t.text, confidence |-> t.confidence, language |-> Language,
     speaker |-> Absent, error |-> Absent]

\* lines 80-91 of transcribe_audio: build the result and, when speaker
\* identification is on, extract the features and identify the speaker;
\* the contextual branch suspends at the style request
AfterText(t, feat) ==
    IF enable_speaker_identification
    THEN LET energy == extract_energy(feat)
         IN  IF UsesStyle(t.text)
             THEN [t EXCEPT !.pc = "style", !.energy = energy]
             ELSE StoreAndReturn([t EXCEPT !.energy = energy],
                     [BaseResult(t) EXCEPT !.speaker = _simple_speaker_identification(energy)])
    ELSE StoreAndReturn(t, BaseResult(t))

\* lines 52-78 of transcribe_audio: load the artifact and recognize it
Recognize(t, loadOk, stt, feat) ==
    IF ~loadOk THEN Outer([t EXCEPT !.stt = "loadfail"], "OSError")
    ELSE IF stt.kind = "text"
         THEN LET t1 == [t EXCEPT !.stt = "text", !.raw = stt.text, !.text = stt.text,
                                  !.confidence = DefaultConfidence]
              IN  IF UsesEnhancement(stt.text)
                  THEN [t1 EXCEPT !.pc = "enhance"]
                  ELSE AfterText(t1, feat)
    ELSE IF stt.kind = "UnknownValueError"
         THEN AfterText([t EXCEPT !.stt = "nospeech", !.text = Inaudible,
                                  !.confidence = ZeroConfidence], feat)
    ELSE IF stt.kind = "RequestError"
         THEN AfterText([t EXCEPT !.stt = "requesterror", !.text = ErrorTranscripcion,
                                  !.confidence = ZeroConfidence], feat)
    ELSE Outer([t EXCEPT !.stt = "othererror"], "OtherError")

\* transcribe_audio resumed after "await self._enhance_transcription(text)"
Enhanced(t, out, feat) ==
    AfterText([t EXCEPT !.enhanced = out,
                        !.text = _enhance_transcription(t.text, out)], feat)

\* transcribe_audio resumed after the style request of _identify_speaker
Styled(t, style) ==
    StoreAndReturn(t, [BaseResult(t) EXCEPT !.speaker = styled_speaker(t.energy, style)])

\* AudioManager._transcribe_audio_file after the await: add the relative
\* timestamp and append to the log; an exception is logged and dropped
\* the result log when _transcribe_audio_file drops a result that arrives
\* after stop()
LogAfterOnlyWhileActive(t, i) ==
    IF t.pc = "done" /\ t.origin = "session" /\ ~t.raised /\ is_active
    THEN Append(transcriptions,
                [text |-> t.result.text, confidence |-> t.result.confidence,
                 language |-> t.result.language, speaker |-> t.result.speaker,
                 error |-> t.result.error, relative_timestamp |-> t.ts, task |-> i])
    ELSE transcriptions
LogAfter(t, i) ==
    IF t.pc = "done" /\ t.origin = "session" /\ ~t.raised
    THEN Append(transcriptions,
                [text |-> t.result.text, confidence |-> t.result.confidence,
                 language |-> t.result.language, speaker |-> t.result.speaker,
                 error |-> t.result.error, relative_timestamp |-> t.ts, task |-> i])
    ELSE transcriptions

(* ============================ AudioManager ============================= *)
\* "if self.meeting_id:"
Truthy(m) == m # NoMeeting /\ m # 0

\* the condition of the flush in _handle_audio_chunk
FlushDueWhenNonEmpty(d) == d > 0
FlushDue(d) == d >= target_duration

\* _generate_filename: meeting_{meeting_id}_{YYYYMMDD_HHMMSS}.wav
_generate_filename == [m |-> meeting_id, t |-> now]

\* the timestamp of a window when the session start is not subtracted
RelativeTimestampSinceEpoch == now
\* "time.time() - self.start_time if self.start_time else 0"
RelativeTimestamp == IF start_time # NoTime THEN now - start_time ELSE 0

\* the artifacts returned so far, after process_buffer returned wav
Emitted(wav) ==
    IF wav = NoArtifact THEN artifacts
    ELSE [artifacts EXCEPT !.list = Append(@, wav)]

\* AudioManager._process_current_buffer on the processor state P
_process_current_buffer(P, caller) ==
    LET r == process_buffer(P)
        path == _generate_filename
        dispatch == r.wav # NoArtifact /\ Truthy(meeting_id)
    IN  /\ audio_buffer' = r.proc.audio_buffer
        /\ buffer_duration' = r.proc.buffer_duration
        /\ lastFlush' = [n |-> lastFlush.n + 1, caller |-> caller,
                         durBefore |-> get_buffer_duration(P),
                         durAfter |-> get_buffer_duration(r.proc),
                         lenAfter |-> Len(r.proc.audio_buffer), wav |-> r.wav,
                         task |-> IF dispatch THEN Len(tasks) + 1 ELSE 0]
        /\ artifacts' = Emitted(r.wav)
        /\ IF dispatch
           THEN tasks' = Append(tasks, NewTask("session", path, RelativeTimestamp))
           ELSE UNCHANGED tasks

\* AudioCapture.start_capture on the capture state C; openOk is whether
\* the device opens.  A failed open is logged and raised again.
start_capture_swallows(C, openOk) ==
    IF C.is_recording THEN [is_recording |-> TRUE, stream |-> C.stream, raised |-> FALSE]
    ELSE [is_recording |-> openOk, stream |-> openOk, raised |-> FALSE]
start_capture(C, openOk) ==
    IF C.is_recording THEN [is_recording |-> TRUE, stream |-> C.stream, raised |-> FALSE]
    ELSE IF openOk THEN [is_recording |-> TRUE, stream |-> TRUE, raised |-> FALSE]
    ELSE [is_recording |-> FALSE, stream |-> C.stream, raised |-> TRUE]

\* a stop_capture that does not close the stream
stop_capture_keeps_stream(C) ==
    IF ~C.is_recording THEN C
    ELSE [is_recording |-> FALSE, stream |-> C.stream]
\* AudioCapture.stop_capture on the capture state C
stop_capture(C) ==
    IF ~C.is_recording THEN C
    ELSE [is_recording |-> FALSE, stream |-> FALSE]

Capture == [is_recording |-> is_recording, stream |-> stream]

\* AudioManager.start.  start_capture is its last call that can raise: an
\* exception of it leaves start after is_active, meeting_id and start_time
\* were assigned.  First, a start that assigns meeting_id and start_time
\* before it looks at is_active.
start_before_check(m, openOk) ==
    /\ sessions < MaxSessions
    /\ IF is_active
       THEN /\ meeting_id' = m
            /\ start_time' = now
            /\ lastStart' = [lastStart EXCEPT !.ignored = TRUE, !.requested = m]
            /\ UNCHANGED <<engineVars, is_active, is_recording, transcriptions, data_kind,
                           sessions, procVars, now, artifacts, stream, auxVars>>
       ELSE /\ meeting_id' = m
            /\ start_time' = now
            /\ is_active' = TRUE
            /\ LET c == start_capture(Capture, openOk)
               IN  /\ is_recording' = c.is_recording
                   /\ stream' = c.stream
                   /\ lastStart' = [openOk |-> openOk, raised |-> c.raised,
                                    ignored |-> FALSE, requested |-> m]
            /\ sessions' = sessions + 1
            /\ UNCHANGED <<engineVars, procVars, transcriptions, data_kind, now, artifacts, auxVars>>
\* AudioManager.start: "if self.is_active: return", then the assignments
start(m, openOk) ==
    /\ sessions < MaxSessions
    /\ IF is_active
       THEN /\ lastStart' = [lastStart EXCEPT !.ignored = TRUE, !.requested = m]
            /\ UNCHANGED <<engineVars, sessionVars, procVars, now, artifacts, stream, auxVars>>
       ELSE /\ meeting_id' = m
            /\ start_time' = now
            /\ is_active' = TRUE
            /\ LET c == start_capture(Capture, openOk)
               IN  /\ is_recording' = c.is_recording
                   /\ stream' = c.stream
                   /\ lastStart' = [openOk |-> openOk, raised |-> c.raised,
                                    ignored |-> FALSE, requested |-> m]
            /\ sessions' = sessions + 1
            /\ UNCHANGED <<engineVars, procVars, transcriptions, data_kind, now, artifacts, auxVars>>

\* AudioManager._handle_audio_chunk
_handle_audio_chunk(c) ==
    /\ chunkCount < MaxChunks
    /\ c.id = chunkCount + 1
    /\ c.kind = data_kind
    /\ IF ~is_active
       THEN UNCHANGED vars
       ELSE /\ chunkCount' = chunkCount + 1
            /\ LET P1 == add_chunk(Proc, c)
               IN  IF FlushDue(get_buffer_duration(P1))
                   THEN _process_current_buffer(P1, "chunk")
                   ELSE /\ audio_buffer' = P1.audio_buffer
                        /\ buffer_duration' = P1.buffer_duration
                        /\ UNCHANGED <<lastFlush, tasks, artifacts>>
            /\ UNCHANGED <<use_ai_enhancement, llm, enable_speaker_identification,
                           transcription_cache, sttCalls, directCalls,
                           is_active, meeting_id, start_time, is_recording,
                           transcriptions, data_kind, sessions, now, captureVars, auxVars>>

\* AudioManager.stop, with AudioCapture.stop_capture
stop ==
    IF ~is_active
    THEN /\ lastStart' = [lastStart EXCEPT !.ignored = TRUE]
         /\ UNCHANGED <<engineVars, sessionVars, procVars, now, artifacts, stream, auxVars>>
    ELSE /\ is_active' = FALSE
         /\ lastStart' = [lastStart EXCEPT !.ignored = FALSE]
         /\ is_recording' = stop_capture(Capture).is_recording
         /\ stream' = stop_capture(Capture).stream
         /\ IF get_buffer_duration(Proc) > 0
            THEN _process_current_buffer(Proc, "stop")
            ELSE UNCHANGED <<audio_buffer, buffer_duration, lastFlush, tasks, artifacts>>
         /\ UNCHANGED <<use_ai_enhancement, llm, enable_speaker_identification,
                        transcription_cache, sttCalls, directCalls,
                        meeting_id, start_time, transcriptions, data_kind, sessions,
                        chunkCount, now, auxVars>>

(* ======================= transcription tasks =========================== *)
\* the variables a step of call i that leads to state t leaves behind
TaskStep(i, t) ==
    /\ tasks' = [tasks EXCEPT ![i] = t]
    /\ transcription_cache' = CacheAfter(t)
    /\ transcriptions' = LogAfter(t, i)
    /\ UNCHANGED <<use_ai_enhancement, llm, enable_speaker_identification, directCalls,
                   is_active, meeting_id, start_time, is_recording, data_kind, sessions,
                   procVars, now, artifacts, captureVars, auxVars>>

\* the event loop starts the dispatched tasks in the order of create_task;
\* the task runs transcribe_audio up to its first await or to its end
TaskStart(i, loadOk, stt, feat) ==
    /\ i \in DOMAIN tasks
    /\ tasks[i].pc = "created"
    /\ \A j \in 1..(i - 1) : tasks[j].pc # "created"
    /\ sttCalls' = IF loadOk THEN [sttCalls EXCEPT ![tasks[i].path] = @ + 1] ELSE sttCalls
    /\ TaskStep(i, Recognize(tasks[i], loadOk, stt, feat))

\* the enhancement request of a suspended call returns or raises
TaskEnhance(i, out, feat) ==
    /\ i \in DOMAIN tasks
    /\ tasks[i].pc = "enhance"
    /\ UNCHANGED sttCalls
    /\ TaskStep(i, Enhanced(tasks[i], out, feat))

\* the style request of a suspended call returns or raises
TaskStyle(i, style) ==
    /\ i \in DOMAIN tasks
    /\ tasks[i].pc = "style"
    /\ UNCHANGED sttCalls
    /\ TaskStep(i, Styled(tasks[i], style))

\* a caller other than the session awaits transcribe_audio(DirectPath), as
\* test_transcription.py does: the call runs at once up to its first await
TranscribeDirect(loadOk, stt, feat) ==
    /\ directCalls < MaxDirectCalls
    /\ directCalls' = directCalls + 1
    /\ LET i == Len(tasks) + 1
           t == Recognize(NewTask("direct", DirectPath, 0), loadOk, stt, feat)
       IN  /\ tasks' = Append(tasks, t)
           /\ transcription_cache' = CacheAfter(t)
           /\ transcriptions' = LogAfter(t, i)
    /\ sttCalls' = IF loadOk THEN [sttCalls EXCEPT ![DirectPath] = @ + 1] ELSE sttCalls
    /\ UNCHANGED <<use_ai_enhancement, llm, enable_speaker_identification,
                   is_active, meeting_id, start_time, is_recording, data_kind, sessions,
                   procVars, now, artifacts, captureVars, auxVars>>

\* the wall clock advances by a second
Tick ==
    /\ now < MaxTime
    /\ now' = now + 1
    /\ UNCHANGED <<engineVars, sessionVars, procVars, artifacts, captureVars, auxVars>>

(* ===================== stand-alone AudioProcessor ====================== *)
ProcChunks == [id : 1..MaxProcOps, duration : ChunkDurations, kind : DataKinds]

\* processor.add_chunk(data, duration)
ProcAddChunk(c) ==
    /\ chunkCount < MaxProcOps
    /\ c.id = chunkCount + 1
    /\ chunkCount' = chunkCount + 1
    /\ audio_buffer' = add_chunk(Proc, c).audio_buffer
    /\ buffer_duration' = add_chunk(Proc, c).buffer_duration
    /\ UNCHANGED <<engineVars, sessionVars, lastFlush, now, artifacts, captureVars, auxVars>>

\* processor.process_buffer()
ProcProcessBuffer ==
    /\ lastFlush.n < MaxProcOps
    /\ LET r == process_buffer(Proc)
       IN  /\ audio_buffer' = r.proc.audio_buffer
           /\ buffer_duration' = r.proc.buffer_duration
           /\ lastFlush' = [n |-> lastFlush.n + 1, caller |-> "direct",
                            durBefore |-> get_buffer_duration(Proc),
                            durAfter |-> get_buffer_duration(r.proc),
                            lenAfter |-> Len(r.proc.audio_buffer), wav |-> r.wav,
                            task |-> 0]
           /\ artifacts' = Emitted(r.wav)
    /\ UNCHANGED <<engineVars, sessionVars, chunkCount, now, captureVars, auxVars>>

\* processor.clear_buffer()
ProcClearBuffer ==
    /\ audio_buffer' = clear_buffer(Proc).audio_buffer
    /\ buffer_duration' = clear_buffer(Proc).buffer_duration
    /\ artifacts' = [artifacts EXCEPT !.cleared = TRUE]
    /\ UNCHANGED <<engineVars, sessionVars, lastFlush, chunkCount, now, captureVars, auxVars>>

(* ========= the capture callback and stop() on different threads ========= *)
\* _handle_audio_chunk runs on the thread of the capture, start() and stop()
\* on the thread of the event loop; no lock is taken, so the threads
\* interleave between the statements of add_chunk, process_buffer and
\* clear_buffer.
ThreadNames == {"callback", "stopper"}

\* what a step of the threads leaves unchanged besides the buffer
ThreadFrameOfStop ==
    UNCHANGED <<use_ai_enhancement, llm, enable_speaker_identification, transcription_cache,
                sttCalls, directCalls, meeting_id, start_time, transcriptions, data_kind,
                sessions, lastFlush, now, lastRead, rec, cls, outVars>>
ThreadFrame == ThreadFrameOfStop /\ UNCHANGED lastStart

\* start() on the thread of the event loop
ThreadsStart(m, openOk) ==
    /\ th.stopper.pc = "idle"
    /\ start(m, openOk)

\* the capture delivers chunk c: "if not self.is_active: return"
CallbackCall(c) ==
    /\ th.callback.pc = "idle"
    /\ chunkCount < MaxChunks
    /\ c.id = chunkCount + 1
    /\ c.kind = data_kind
    /\ IF ~is_active
       THEN UNCHANGED vars
       ELSE /\ chunkCount' = chunkCount + 1
            /\ th' = [th EXCEPT !.callback.pc = "append", !.callback.chunk = c]
            /\ UNCHANGED <<audio_buffer, buffer_duration, is_active, is_recording, stream,
                           tasks, artifacts>>
            /\ ThreadFrame

\* add_chunk: "self.audio_buffer.append(audio_data)"
CallbackAppend ==
    /\ th.callback.pc = "append"
    /\ audio_buffer' = Append(audio_buffer, th.callback.chunk)
    /\ th' = [th EXCEPT !.callback.pc = "load", !.accepted = Append(@, th.callback.chunk.id)]
    /\ UNCHANGED <<buffer_duration, is_active, is_recording, stream, tasks, artifacts, chunkCount>>
    /\ ThreadFrame

\* add_chunk: "self.buffer_duration += duration", the read
CallbackLoad ==
    /\ th.callback.pc = "load"
    /\ th' = [th EXCEPT !.callback.pc = "store", !.callback.acc = buffer_duration]
    /\ UNCHANGED <<audio_buffer, buffer_duration, is_active, is_recording, stream, tasks,
                   artifacts, chunkCount>>
    /\ ThreadFrame

\* add_chunk: "self.buffer_duration += duration", the write
CallbackStore ==
    /\ th.callback.pc = "store"
    /\ buffer_duration' = th.callback.acc + th.callback.chunk.duration
    /\ th' = [th EXCEPT !.callback.pc = "check", !.callback.acc = 0]
    /\ UNCHANGED <<audio_buffer, is_active, is_recording, stream, tasks, artifacts, chunkCount>>
    /\ ThreadFrame

\* "if self.processor.get_buffer_duration() >= self.processor.target_duration"
CallbackCheck ==
    /\ th.callback.pc = "check"
    /\ th' = [th EXCEPT !.callback.pc = IF FlushDue(get_buffer_duration(Proc))
                                        THEN "empty" ELSE "idle",
                        !.callback.chunk = <<>>]
    /\ UNCHANGED <<audio_buffer, buffer_duration, is_active, is_recording, stream, tasks,
                   artifacts, chunkCount>>
    /\ ThreadFrame

\* stop(): "if not self.is_active: return", "self.is_active = False"
StopperCall ==
    /\ th.stopper.pc = "idle"
    /\ IF ~is_active
       THEN /\ lastStart' = [lastStart EXCEPT !.ignored = TRUE]
            /\ UNCHANGED <<is_active, th>>
       ELSE /\ is_active' = FALSE
            /\ lastStart' = [lastStart EXCEPT !.ignored = FALSE]
            /\ th' = [th EXCEPT !.stopper.pc = "capture"]
    /\ UNCHANGED <<audio_buffer, buffer_duration, is_recording, stream, tasks,
                   artifacts, chunkCount>>
    /\ ThreadFrameOfStop

\* stop(): "self.capture.stop_capture()"
StopperCapture ==
    /\ th.stopper.pc = "capture"
    /\ is_recording' = stop_capture(Capture).is_recording
    /\ stream' = stop_capture(Capture).stream
    /\ th' = [th EXCEPT !.stopper.pc = "check"]
    /\ UNCHANGED <<audio_buffer, buffer_duration, is_active, tasks, artifacts, chunkCount>>
    /\ ThreadFrame

\* stop(): "if self.processor.get_buffer_duration() > 0"
StopperCheck ==
    /\ th.stopper.pc = "check"
    /\ th' = [th EXCEPT !.stopper.pc = IF get_buffer_duration(Proc) > 0
                                       THEN "empty" ELSE "idle"]
    /\ UNCHANGED <<audio_buffer, buffer_duration, is_active, is_recording, stream, tasks,
                   artifacts, chunkCount>>
    /\ ThreadFrame

\* process_buffer on thread x without the return on an empty buffer
ProcessEmptyConcatenatesAnyway(x) ==
    /\ th[x].pc = "empty"
    /\ th' = [th EXCEPT ![x].pc = "concat",
                        !.flushedEmpty = @ \/ audio_buffer = <<>>]
    /\ UNCHANGED <<audio_buffer, buffer_duration, is_active, is_recording, stream, tasks,
                   artifacts, chunkCount>>
    /\ ThreadFrame
\* process_buffer on thread x: "if not self.audio_buffer: return None", after
\* which _process_current_buffer has nothing to save or dispatch;
\* flushedEmpty records that this has happened
ProcessEmpty(x) ==
    /\ th[x].pc = "empty"
    /\ th' = [th EXCEPT ![x].pc = IF audio_buffer = <<>> THEN "idle" ELSE "concat",
                        !.flushedEmpty = @ \/ audio_buffer = <<>>]
    /\ UNCHANGED <<audio_buffer, buffer_duration, is_active, is_recording, stream, tasks,
                   artifacts, chunkCount>>
    /\ ThreadFrame

\* process_buffer on thread x: np.concatenate and _numpy_to_wav on the list
\* as it is now; an exception is logged and None returned
ProcessConcat(x) ==
    /\ th[x].pc = "concat"
    /\ th' = IF ConcatenateOk(audio_buffer)
             THEN [th EXCEPT ![x].pc = "clear", ![x].wav = Concatenate(audio_buffer)]
             ELSE [th EXCEPT ![x].pc = "idle"]
    /\ UNCHANGED <<audio_buffer, buffer_duration, is_active, is_recording, stream, tasks,
                   artifacts, chunkCount>>
    /\ ThreadFrame

\* clear_buffer on thread x: "self.audio_buffer = []"
ProcessClear(x) ==
    /\ th[x].pc = "clear"
    /\ audio_buffer' = <<>>
    /\ th' = [th EXCEPT ![x].pc = "zero"]
    /\ UNCHANGED <<buffer_duration, is_active, is_recording, stream, tasks, artifacts, chunkCount>>
    /\ ThreadFrame

\* clear_buffer on thread x: "self.buffer_duration = 0.0"
ProcessZero(x) ==
    /\ th[x].pc = "zero"
    /\ buffer_duration' = 0
    /\ th' = [th EXCEPT ![x].pc = "emit"]
    /\ UNCHANGED <<audio_buffer, is_active, is_recording, stream, tasks, artifacts, chunkCount>>
    /\ ThreadFrame

\* _process_current_buffer on thread x after process_buffer returned the
\* artifact: save it and dispatch its task; asyncio.create_task finds a
\* running loop only on the thread of the event loop and raises on the other
ProcessEmit(x) ==
    /\ th[x].pc = "emit"
    /\ artifacts' = Emitted(th[x].wav)
    /\ tasks' = IF Truthy(meeting_id) /\ x = "stopper"
                THEN Append(tasks, NewTask("session", _generate_filename, RelativeTimestamp))
                ELSE tasks
    /\ th' = [th EXCEPT ![x].pc = "idle", ![x].wav = <<>>]
    /\ UNCHANGED <<audio_buffer, buffer_duration, is_active, is_recording, stream, chunkCount>>
    /\ ThreadFrame

(* ==================== _identify_speaker, called directly =============== *)
\* the calls: the features of the artifact (an energy, or a failed
\* extraction), the text and the answer of the style classifier
ClassifyCalls == [feat : (0..MaxEnergy) \cup {ExtractFailed}, energy : {0},
                  text : {Absent, "", Inaudible, "hola"},
                  style : StyleOutcomes \cup {"INFORMAL"},
                  label : {Absent}, done : {FALSE}]

\* lines 89-90 of transcribe_audio: "_extract_audio_features(audio_path)"
\* and "await self._identify_speaker(audio_features, text)" return the label
IdentifySpeaker ==
    /\ ~cls.done
    /\ LET energy == extract_energy(cls.feat)
       IN  cls' = [cls EXCEPT !.energy = energy,
                              !.label = _identify_speaker(energy, cls.text, cls.style),
                              !.done = TRUE]
    /\ UNCHANGED <<engineVars, sessionVars, procVars, now, artifacts, captureVars,
                   lastRead, rec, th, outVars>>

(* ============ generate_meeting_summary and format_transcription ======== *)
\* the results of transcribe_audio a log can hold: recognized text, an
\* empty recognition, and the three sentinels (lines 61-104); the generic
\* error record has no speaker
LogResults ==
    {[text |-> "hola", confidence |-> DefaultConfidence, speaker |-> "Hablante 3"],
     [text |-> "", confidence |-> DefaultConfidence, speaker |-> "Hablante 3"],
     [text |-> Inaudible, confidence |-> ZeroConfidence, speaker |-> "Hablante 3"],
     [text |-> ErrorTranscripcion, confidence |-> ZeroConfidence, speaker |-> "Hablante 3"],
     [text |-> ErrorGeneric, confidence |-> ZeroConfidence, speaker |-> Absent]}

Logs == UNION {[1..n -> LogResults] : n \in 0..MaxLog}

SummaryUnavailable == "Resumen no disponible (IA no habilitada)"
SummaryNoContent == "No hay suficiente contenido para generar un resumen"
SummaryError == "Error al generar resumen"
SummaryRaises == "raise"
SummaryOutcomes == {"Resumen.", SummaryRaises}

\* "if t.get('text') and t.get('text') != '[Inaudible]'"
InSummary(r) == r.text # Absent /\ r.text # "" /\ r.text # Inaudible

\* generate_meeting_summary without the test of the empty transcript
generate_meeting_summary_always_calls(log, out) ==
    IF ~use_ai_enhancement \/ ~llm
    THEN [llmCalls |-> 0, transcript |-> <<>>, message |-> SummaryUnavailable]
    ELSE LET full_text == SelectSeq(log, InSummary)
         IN  [llmCalls |-> 1, transcript |-> full_text,
              message |-> IF out = SummaryRaises THEN SummaryError ELSE out]
\* TranscriptionEngine.generate_meeting_summary on a log; out is the outcome
\* of the summarization request, if it is made
generate_meeting_summary(log, out) ==
    IF ~use_ai_enhancement \/ ~llm
    THEN [llmCalls |-> 0, transcript |-> <<>>, message |-> SummaryUnavailable]
    ELSE LET full_text == SelectSeq(log, InSummary)
         IN  IF full_text = <<>>
             THEN [llmCalls |-> 0, transcript |-> full_text, message |-> SummaryNoContent]
             ELSE [llmCalls |-> 1, transcript |-> full_text,
                   message |-> IF out = SummaryRaises THEN SummaryError ELSE out]

\* len(text.split())
WordCount(text) ==
    IF text = "" THEN 0 ELSE IF text = ErrorTranscripcion THEN 3 ELSE 1

\* "if text and text not in ['[Inaudible]', '[Error]']"
InContent(r) == r.text # Absent /\ r.text # "" /\ r.text \notin {Inaudible, ErrorGeneric}
\* "t.get('text') not in ['[Inaudible]', '[Error]', None]"
IsValidTranscription(r) == r.text \notin {Inaudible, ErrorGeneric, Absent}

RECURSIVE SumWords(_)
SumWords(q) == IF q = <<>> THEN 0 ELSE WordCount(Head(q).text) + SumWords(Tail(q))
RECURSIVE SumConfidence(_)
SumConfidence(q) == IF q = <<>> THEN 0 ELSE Head(q).confidence + SumConfidence(Tail(q))
\* "sum(confidences) / len(confidences) if confidences else 0", in hundredths
MeanConfidence(q) == IF q = <<>> THEN 0 ELSE (SumConfidence(q) * 10) \div Len(q)

\* TranscriptionEngine.format_transcription on a log: the content lines and
\* the statistics
format_transcription(log) ==
    LET valid_transcriptions == SelectSeq(log, IsValidTranscription)
    IN  [lines |-> SelectSeq(log, InContent),
         segments |-> Len(valid_transcriptions),
         words |-> SumWords(valid_transcriptions),
         mean |-> MeanConfidence(valid_transcriptions)]

\* await engine.generate_meeting_summary(digest.log)
GenerateSummary(out) ==
    /\ digest.op = "none"
    /\ LET r == generate_meeting_summary(digest.log, out)
       IN  digest' = [digest EXCEPT !.op = "summary", !.llmCalls = r.llmCalls,
                                    !.transcript = r.transcript, !.message = r.message]
    /\ UNCHANGED <<engineVars, sessionVars, procVars, now, artifacts, captureVars,
                   lastRead, rec, th, cls, lastLevel, db>>

\* engine.format_transcription(digest.log)
FormatTranscription ==
    /\ digest.op = "none"
    /\ LET r == format_transcription(digest.log)
       IN  digest' = [digest EXCEPT !.op = "report", !.lines = r.lines,
                                    !.segments = r.segments, !.words = r.words,
                                    !.mean = r.mean]
    /\ UNCHANGED <<engineVars, sessionVars, procVars, now, artifacts, captureVars,
                   lastRead, rec, th, cls, lastLevel, db>>

(* ============================ get_audio_level ========================== *)
\* "self.capture.get_audio_level(last_chunk)": AudioCapture defines no
\* get_audio_level, the attribute lookup raises
capture_get_audio_level == "AttributeError"

\* AudioManager.get_audio_level
get_audio_level ==
    /\ lastLevel' = IF audio_buffer # <<>> THEN capture_get_audio_level ELSE "0.0"
    /\ UNCHANGED <<engineVars, sessionVars, procVars, now, artifacts, captureVars,
                   lastRead, rec, th, cls, digest, db>>

(* ========================= endpoints of main.py ======================== *)
\* what every meeting endpoint leaves alone
DbFrame ==
    UNCHANGED <<engineVars, sessionVars, procVars, now, artifacts, captureVars,
                lastRead, rec, th, cls, digest, lastLevel>>

\* Meeting.status: "status: str = Field(default='active')"
MeetingDefaultStatus == "active"

\* "meeting.status == 'active'" of a row that passed the 404 test
IsActive(status) == status = "active"

\* POST /meetings/: a new row with the next id and the defaults of Meeting
create_meeting ==
    /\ \E m \in DbMeetings :
         /\ db.status[m] = "none"
         /\ \A k \in DbMeetings : k < m => db.status[k] # "none"
         /\ db' = [db EXCEPT !.status[m] = MeetingDefaultStatus,
                             !.last = [op |-> "create_meeting", meeting |-> m, code |-> 200,
                                       started |-> FALSE]]
    /\ DbFrame

\* POST /meetings/{m}/start: 404 without the row, 400 when its status is
\* active, otherwise the status becomes active
start_transcription(m) ==
    /\ LET code == IF db.status[m] = "none" THEN 404
                   ELSE IF IsActive(db.status[m]) THEN 400 ELSE 200
           resp == [op |-> "start_transcription", meeting |-> m, code |-> code,
                    started |-> db.started[m]]
       IN  db' = IF code = 200
                 THEN [db EXCEPT !.status[m] = "active", !.started[m] = TRUE, !.last = resp]
                 ELSE [db EXCEPT !.last = resp]
    /\ DbFrame

\* POST /meetings/{m}/stop: 404 without the row, 400 unless its status is
\* active, otherwise the status becomes completed
stop_transcription(m) ==
    /\ LET code == IF db.status[m] = "none" THEN 404
                   ELSE IF ~IsActive(db.status[m]) THEN 400 ELSE 200
           resp == [op |-> "stop_transcription", meeting |-> m, code |-> code,
                    started |-> db.started[m]]
       IN  db' = IF code = 200
                 THEN [db EXCEPT !.status[m] = "completed", !.started[m] = FALSE,
                                 !.last = resp]
                 ELSE [db EXCEPT !.last = resp]
    /\ DbFrame

\* POST /meetings/{m}/audio/start: 404 without the row, otherwise
\* audio_manager.start(m, device_index)
start_audio_capture(m, openOk) ==
    IF db.status[m] = "none"
    THEN UNCHANGED vars
    ELSE start(m, openOk)

\* the response to the start_audio_capture that called start(): 500 when
\* start raised, otherwise 200 "Captura de audio iniciada"
start_audio_capture_response ==
    IF lastStart.raised /\ ~lastStart.ignored THEN 500 ELSE 200

\* POST /meetings/{m}/audio/stop: audio_manager.stop(), for whichever m
stop_audio_capture(m) == stop

(* ====================== AudioCapture, called directly ================== *)
\* the device read of AudioCapture.read_chunk on the capture state C, after
\* the recording check: readOk is whether the device read succeeds.  A
\* stream that stop_capture cleared in between makes the read raise too;
\* every exception is logged and gives None.
read_chunk_stops_on_error(C, readOk) ==
    IF ~C.stream THEN [capture |-> C, result |-> "None", outcome |-> "cleared"]
    ELSE IF readOk THEN [capture |-> C, result |-> "chunk", outcome |-> "ok"]
    ELSE [capture |-> stop_capture(C), result |-> "None", outcome |-> "readerror"]
read_chunk(C, readOk) ==
    IF ~C.stream THEN [capture |-> C, result |-> "None", outcome |-> "cleared"]
    ELSE IF readOk THEN [capture |-> C, result |-> "chunk", outcome |-> "ok"]
    ELSE [capture |-> C, result |-> "None", outcome |-> "readerror"]

\* capture.start_capture(), called directly
CaptureStart(openOk) ==
    /\ sessions < MaxSessions
    /\ sessions' = sessions + 1
    /\ LET c == start_capture(Capture, openOk)
       IN  /\ is_recording' = c.is_recording
           /\ stream' = c.stream
           /\ lastStart' = [openOk |-> openOk, raised |-> c.raised, ignored |-> FALSE,
                            requested |-> NoMeeting]
    /\ lastRead' = IF is_recording THEN lastRead ELSE [lastRead EXCEPT !.failures = 0]
    /\ UNCHANGED <<engineVars, is_active, meeting_id, start_time, transcriptions, data_kind,
                   procVars, now, artifacts, rec, th, cls, outVars>>

\* capture.stop_capture(), called directly
CaptureStop ==
    /\ is_recording' = stop_capture(Capture).is_recording
    /\ stream' = stop_capture(Capture).stream
    /\ UNCHANGED <<engineVars, is_active, meeting_id, start_time, transcriptions, data_kind,
                   sessions, procVars, now, artifacts, lastStart, auxVars>>

\* read_chunk up to its device read: "if not self.is_recording or not
\* self.stream: return None" (read_chunk takes no lock)
ReadCheck ==
    /\ lastRead.pc = "idle"
    /\ lastRead.n < MaxReads
    /\ lastRead' = IF ~is_recording \/ ~stream
                   THEN [lastRead EXCEPT !.n = @ + 1, !.outcome = "notrecording",
                                         !.result = "None",
                                         !.recordingAfter = is_recording,
                                         !.streamAfter = stream]
                   ELSE [lastRead EXCEPT !.pc = "reading"]
    /\ UNCHANGED <<engineVars, sessionVars, procVars, now, artifacts, captureVars, rec, th, cls, outVars>>

\* the device read of read_chunk and its return
ReadDevice(readOk) ==
    /\ lastRead.pc = "reading"
    /\ LET r == read_chunk(Capture, readOk)
       IN  /\ is_recording' = r.capture.is_recording
           /\ stream' = r.capture.stream
           /\ lastRead' = [n |-> lastRead.n + 1, pc |-> "idle", outcome |-> r.outcome,
                           result |-> r.result,
                           failures |-> lastRead.failures
                                          + (IF r.outcome = "readerror" THEN 1 ELSE 0),
                           recordingAfter |-> r.capture.is_recording,
                           streamAfter |-> r.capture.stream]
    /\ UNCHANGED <<engineVars, is_active, meeting_id, start_time, transcriptions, data_kind,
                   sessions, procVars, now, artifacts, lastStart, rec, th, cls, outVars>>

(* ========== stop_capture statement by statement, beside a reader ======= *)
\* what a step of stop_capture leaves alone
StopCaptureFrame ==
    UNCHANGED <<engineVars, is_active, meeting_id, start_time, transcriptions, data_kind,
                sessions, procVars, now, artifacts, lastStart, lastRead, rec, cls, outVars>>

\* start_capture under the lock: it waits for a stop_capture that holds it
LockedCaptureStart(openOk) ==
    /\ th.stopper.pc = "idle"
    /\ CaptureStart(openOk)

\* stop_capture takes the lock: "if not self.is_recording: return", then
\* "self.is_recording = False"
StopCaptureFlag ==
    /\ th.stopper.pc = "idle"
    /\ is_recording
    /\ is_recording' = FALSE
    /\ th' = [th EXCEPT !.stopper.pc = "close"]
    /\ UNCHANGED stream
    /\ StopCaptureFrame

\* stop_capture: "if self.stream:" stop_stream(), close(), "self.stream =
\* None", and the lock is released
StopCaptureClose ==
    /\ th.stopper.pc = "close"
    /\ stream' = FALSE
    /\ th' = [th EXCEPT !.stopper.pc = "idle"]
    /\ UNCHANGED is_recording
    /\ StopCaptureFrame

(* ================= the thread-based manager of capture.py ============== *)
\* AudioManager.start_recording: set the flag and start the two threads
start_recording ==
    /\ rec.caller = "idle"
    /\ rec.starts < MaxSessions
    /\ rec' = IF rec.is_recording THEN rec
              ELSE [rec EXCEPT !.is_recording = TRUE, !.starts = @ + 1,
                               !.record = "open", !.periodic = "loop"]
    /\ UNCHANGED <<engineVars, sessionVars, procVars, now, artifacts, captureVars,
                   lastRead, th, cls, outVars>>

\* a step of one of the threads of the manager, to the state r
RecorderStep(r) ==
    /\ rec' = r
    /\ UNCHANGED <<engineVars, sessionVars, procVars, now, artifacts, captureVars,
                   lastRead, th, cls, outVars>>

\* _record_audio: open the stream; a failure is logged and ends the thread
\* (a stream is closed in the finally block only if one is there)
RecordOpen(openOk) ==
    /\ rec.record = "open"
    /\ RecorderStep(IF openOk
                    THEN [rec EXCEPT !.stream = "open", !.record = "loop",
                                     !.lastLoop = NoLoop]
                    ELSE [rec EXCEPT !.record = "finished"])

\* _record_audio: one iteration of "while self.is_recording": read and
\* append; a failed read is logged and the loop goes on; appended records
\* the chunks that were appended
RecordIterate(readOk) ==
    /\ rec.record = "loop"
    /\ rec.is_recording
    /\ rec.reads < MaxReads
    /\ LET data == IF readOk THEN Append(rec.current_audio_data, rec.reads + 1)
                   ELSE rec.current_audio_data
       IN  RecorderStep([rec EXCEPT
               !.reads = @ + 1,
               !.current_audio_data = data,
               !.appended = IF readOk THEN Append(@, rec.reads + 1) ELSE @,
               !.lastLoop = [outcome |-> IF readOk THEN "ok" ELSE "readerror",
                             failures |-> rec.lastLoop.failures + (IF readOk THEN 0 ELSE 1),
                             lenBefore |-> Len(rec.current_audio_data),
                             lenAfter |-> Len(data),
                             pcAfter |-> "loop", streamAfter |-> rec.stream]])

\* _record_audio: the loop ends and the finally block closes the stream
RecordExit ==
    /\ rec.record = "loop"
    /\ ~rec.is_recording
    /\ RecorderStep([rec EXCEPT !.stream = "closed", !.record = "finished"])

\* a periodic thread that does not look at is_recording
PeriodicLoopIgnoresFlag ==
    /\ rec.periodic = "loop"
    /\ RecorderStep([rec EXCEPT !.periodic = "wake"])
\* _periodic_transcription: "while self.is_recording"
PeriodicLoop ==
    /\ rec.periodic = "loop"
    /\ RecorderStep([rec EXCEPT !.periodic = IF rec.is_recording THEN "wake" ELSE "finished"])

\* _periodic_transcription after the sleep: "if self.current_audio_data"
PeriodicWake ==
    /\ rec.periodic = "wake"
    /\ RecorderStep([rec EXCEPT !.periodic = IF rec.current_audio_data # <<>>
                                             THEN "copy" ELSE "loop"])

\* _process_audio_chunk: "audio_data = self.current_audio_data.copy()"
PeriodicCopy ==
    /\ rec.periodic = "copy"
    /\ RecorderStep([rec EXCEPT !.copy = rec.current_audio_data, !.periodic = "reset"])

\* _process_audio_chunk: "self.current_audio_data = []"
PeriodicReset ==
    /\ rec.periodic = "reset"
    /\ RecorderStep([rec EXCEPT !.current_audio_data = <<>>, !.periodic = "save"])

\* _process_audio_chunk: write the copy to its file and transcribe it
PeriodicSave ==
    /\ rec.periodic = "save"
    /\ RecorderStep([rec EXCEPT !.saved = Append(@, rec.copy), !.copy = <<>>,
                                !.periodic = "loop"])

\* stop_recording up to its joins
StopRecordingBegin ==
    /\ rec.caller = "idle"
    /\ RecorderStep([rec EXCEPT !.is_recording = FALSE, !.caller = "joining"])

\* stop_recording after both joins returned: process what is left
StopRecordingEnd ==
    /\ rec.caller = "joining"
    /\ rec.record \in {"none", "finished"}
    /\ rec.periodic \in {"none", "finished"}
    /\ RecorderStep(IF rec.current_audio_data # <<>>
                    THEN [rec EXCEPT !.saved = Append(@, rec.current_audio_data),
                                     !.current_audio_data = <<>>, !.caller = "idle"]
                    ELSE [rec EXCEPT !.caller = "idle"])

(* ============================ specification ============================ *)
Chunks == [id : 1..MaxChunks, duration : ChunkDurations, kind : DataKinds]

InitBase ==
    /\ \E requested \in BOOLEAN, hasKey \in BOOLEAN, ctorOk \in BOOLEAN :
         LET e == EngineInit(requested, hasKey, ctorOk)
         IN  /\ use_ai_enhancement = e.use_ai_enhancement
             /\ llm = e.llm
             /\ transcription_cache = [defined |-> e.cacheDefined,
                                       entries |-> [p \in Paths |-> NoResult]]
    /\ enable_speaker_identification \in BOOLEAN
    /\ sttCalls = [p \in Paths |-> 0]
    /\ tasks = <<>>
    /\ directCalls = 0
    /\ is_active = FALSE
    /\ meeting_id = NoMeeting
    /\ start_time = NoTime
    /\ is_recording = FALSE
    /\ audio_buffer = <<>>
    /\ buffer_duration = 0
    /\ transcriptions = <<>>
    /\ data_kind \in DataKinds
    /\ now = 1
    /\ chunkCount = 0
    /\ sessions = 0
    /\ lastFlush = NoFlush
    /\ artifacts = [list |-> <<>>, cleared |-> FALSE]
    /\ lastStart = NoStart
    /\ stream = FALSE
    /\ lastRead = NoRead
    /\ rec = NoRecorder
    /\ th = NoThreads
    /\ lastLevel = "none"
    /\ db = NoDb

Init == InitBase /\ cls = NoCall /\ digest = NoDigest

Next ==
    \/ \E m \in MeetingIds, openOk \in BOOLEAN : start(m, openOk)
    \/ \E c \in Chunks : _handle_audio_chunk(c)
    \/ stop
    \/ \E i \in DOMAIN tasks, loadOk \in BOOLEAN, stt \in SttOutcomes, feat \in FeatureOutcomes :
         TaskStart(i, loadOk, stt, feat)
    \/ \E i \in DOMAIN tasks, out \in EnhanceOutcomes, feat \in FeatureOutcomes :
         TaskEnhance(i, out, feat)
    \/ \E i \in DOMAIN tasks, style \in StyleOutcomes : TaskStyle(i, style)
    \/ Tick

\* the capture session: AudioManager with its processor, capture and engine
Spec == Init /\ [][Next]_vars

\* the steps of the dispatched tasks: the event loop runs a task that is
\* ready, and a pending request to the language model returns or raises
TaskRun ==
    \/ \E i \in DOMAIN tasks, loadOk \in BOOLEAN, stt \in SttOutcomes, feat \in FeatureOutcomes :
         TaskStart(i, loadOk, stt, feat)
    \/ \E i \in DOMAIN tasks, out \in EnhanceOutcomes, feat \in FeatureOutcomes :
         TaskEnhance(i, out, feat)
    \/ \E i \in DOMAIN tasks, style \in StyleOutcomes : TaskStyle(i, style)

\* the session while the wall clock stands still: the clock reaches a task
\* only through the timestamp and the file name it was dispatched with
NextLive ==
    \/ \E m \in MeetingIds, openOk \in BOOLEAN : start(m, openOk)
    \/ \E c \in Chunks : _handle_audio_chunk(c)
    \/ stop
    \/ TaskRun

\* the session under an event loop that keeps running and external calls
\* that return: a task that can take a step eventually takes it
SpecLive == Init /\ [][NextLive]_vars /\ WF_vars(TaskRun)

\* an AudioCapture read by one thread and started and stopped by another
NextCapture ==
    \/ \E openOk \in BOOLEAN : CaptureStart(openOk)
    \/ CaptureStop
    \/ ReadCheck
    \/ \E readOk \in BOOLEAN : ReadDevice(readOk)

SpecCapture == Init /\ [][NextCapture]_vars

\* a reader thread beside a thread that starts and stops the capture;
\* read_chunk takes no lock, so it runs between the statements of
\* stop_capture
NextCaptureThreads ==
    \/ \E openOk \in BOOLEAN : LockedCaptureStart(openOk)
    \/ StopCaptureFlag
    \/ StopCaptureClose
    \/ ReadCheck
    \/ \E readOk \in BOOLEAN : ReadDevice(readOk)

SpecCaptureThreads == Init /\ [][NextCaptureThreads]_vars

\* the thread-based manager of capture.py with its two threads
NextRecorder ==
    \/ start_recording
    \/ \E openOk \in BOOLEAN : RecordOpen(openOk)
    \/ \E readOk \in BOOLEAN : RecordIterate(readOk)
    \/ RecordExit
    \/ PeriodicLoop
    \/ PeriodicWake
    \/ PeriodicCopy
    \/ PeriodicReset
    \/ PeriodicSave
    \/ StopRecordingBegin
    \/ StopRecordingEnd

SpecRecorder == Init /\ [][NextRecorder]_vars

\* the steps of the recording thread, of the periodic thread, and of the
\* caller of stop_recording once its joins can return
RecordThread ==
    \/ \E openOk \in BOOLEAN : RecordOpen(openOk)
    \/ \E readOk \in BOOLEAN : RecordIterate(readOk)
    \/ RecordExit
PeriodicThread ==
    \/ PeriodicLoop
    \/ PeriodicWake
    \/ PeriodicCopy
    \/ PeriodicReset
    \/ PeriodicSave

\* the thread-based manager when every thread that can run gets to run and
\* the device read, the sleep and the transcription return
SpecRecorderLive ==
    /\ Init
    /\ [][NextRecorder]_vars
    /\ WF_vars(RecordThread)
    /\ WF_vars(PeriodicThread)
    /\ WF_vars(StopRecordingEnd)

\* the two readers of capture.py side by side; capture.py does not use the
\* engine, whose configuration is fixed to the default here
InitReaders ==
    /\ Init
    /\ ~use_ai_enhancement
    /\ enable_speaker_identification
    /\ data_kind = "bytes"

NextReaders == NextCapture \/ NextRecorder

SpecReaders == InitReaders /\ [][NextReaders]_vars

\* the session with its capture callback on a thread of its own
NextThreads ==
    \/ \E m \in MeetingIds, openOk \in BOOLEAN : ThreadsStart(m, openOk)
    \/ \E c \in Chunks : CallbackCall(c)
    \/ CallbackAppend
    \/ CallbackLoad
    \/ CallbackStore
    \/ CallbackCheck
    \/ StopperCall
    \/ StopperCapture
    \/ StopperCheck
    \/ \E x \in ThreadNames : ProcessEmpty(x)
    \/ \E x \in ThreadNames : ProcessConcat(x)
    \/ \E x \in ThreadNames : ProcessClear(x)
    \/ \E x \in ThreadNames : ProcessZero(x)
    \/ \E x \in ThreadNames : ProcessEmit(x)

SpecThreads == Init /\ [][NextThreads]_vars

\* one call of _identify_speaker on inputs drawn from the bounded sets
InitClassify == InitBase /\ cls \in ClassifyCalls /\ digest = NoDigest

NextClassify == IdentifySpeaker

SpecClassify == InitClassify /\ [][NextClassify]_vars

\* one call of generate_meeting_summary or format_transcription on a log
\* drawn from the bounded set
InitDigest ==
    /\ InitBase
    /\ cls = NoCall
    /\ digest \in {[NoDigest EXCEPT !.log = l] : l \in Logs}

NextDigest ==
    \/ \E out \in SummaryOutcomes : GenerateSummary(out)
    \/ FormatTranscription

SpecDigest == InitDigest /\ [][NextDigest]_vars

\* the session and its status, without the steps of the tasks
NextStatus ==
    \/ \E m \in MeetingIds, openOk \in BOOLEAN : start(m, openOk)
    \/ \E c \in Chunks : _handle_audio_chunk(c)
    \/ stop
    \/ get_audio_level

SpecStatus == Init /\ [][NextStatus]_vars

\* the endpoints of main.py on the one audio manager of the application
NextApi ==
    \/ create_meeting
    \/ \E m \in DbMeetings : start_transcription(m)
    \/ \E m \in DbMeetings : stop_transcription(m)
    \/ \E m \in DbMeetings, openOk \in BOOLEAN : start_audio_capture(m, openOk)
    \/ \E m \in DbMeetings : stop_audio_capture(m)
    \/ \E c \in Chunks : _handle_audio_chunk(c)

SpecApi == Init /\ [][NextApi]_vars

\* the engine alone, called directly
NextEngine ==
    \/ \E loadOk \in BOOLEAN, stt \in SttOutcomes, feat \in FeatureOutcomes :
         TranscribeDirect(loadOk, stt, feat)
    \/ \E i \in DOMAIN tasks, out \in EnhanceOutcomes, feat \in FeatureOutcomes :
         TaskEnhance(i, out, feat)
    \/ \E i \in DOMAIN tasks, style \in StyleOutcomes : TaskStyle(i, style)

SpecEngine == Init /\ [][NextEngine]_vars

\* a stand-alone AudioProcessor, called directly (as test_audio.py does)
NextProcessor ==
    \/ \E c \in ProcChunks : ProcAddChunk(c)
    \/ ProcProcessBuffer
    \/ ProcClearBuffer

SpecProcessor == Init /\ [][NextProcessor]_vars

(* ============================== properties ============================= *)
DoneTasks == {i \in DOMAIN tasks : tasks[i].pc = "done"}
EnhancementOn == use_ai_enhancement /\ llm

\* C1: two calls of transcribe_audio on the same artifact path invoke the
\* speech-to-text capability at most once in total (the second call is
\* answered from the cache).
C1_SttAtMostOncePerPath == \A p \in Paths : sttCalls[p] <= 1

\* C2: when the speech-to-text capability recognizes text t, the result has
\* confidence 0.9 and its text is t when enhancement is disabled, or the
\* enhanced text when enhancement is enabled and succeeds.
C2_RecognizedTextResult ==
    \A i \in DoneTasks :
        tasks[i].stt = "text" =>
            /\ tasks[i].result.confidence = DefaultConfidence
            /\ ~EnhancementOn => tasks[i].result.text = tasks[i].raw
            /\ tasks[i].enhanced \in EnhancedTexts =>
                   tasks[i].result.text = tasks[i].enhanced

\* C3: when the speech-to-text capability signals "no speech" for a
\* dispatched artifact, the entry appended to the result log has text
\* "[Inaudible]", confidence 0.0 and the relative timestamp computed when
\* the artifact's window was flushed.
C3_NoSpeechLogged ==
    \A k \in DOMAIN transcriptions :
        LET e == transcriptions[k]
        IN  tasks[e.task].stt = "nospeech" =>
                /\ e.text = Inaudible
                /\ e.confidence = ZeroConfidence
                /\ e.relative_timestamp = tasks[e.task].ts

\* C4: when the speech-to-text capability fails with a recognition-service
\* error, transcribe_audio returns the text "[Error de transcripción]",
\* confidence 0.0 and an error detail, and raises nothing.
C4_RequestErrorResult ==
    \A i \in DoneTasks :
        tasks[i].stt = "requesterror" =>
            /\ ~tasks[i].raised
            /\ tasks[i].result.text = ErrorTranscripcion
            /\ tasks[i].result.confidence = ZeroConfidence
            /\ tasks[i].result.error # Absent

\* C5: transcribe_audio never raises: whatever the artifact load, the
\* speech-to-text call, the enhancement call, the feature extraction and
\* the style classification do, the call returns a result record that has
\* a text and a confidence.
C5_NeverRaises ==
    \A i \in DoneTasks :
        /\ ~tasks[i].raised
        /\ tasks[i].result.text # Absent
        /\ tasks[i].result.confidence \in {ZeroConfidence, DefaultConfidence}

\* C5 witness: a call in which the enhancement request failed has returned,
\* and so has one in which the recognizer raised an unexpected error.
C5_Witness ==
    /\ \E i \in DoneTasks : tasks[i].enhanced = EnhanceRaises
    /\ \E i \in DoneTasks : tasks[i].stt = "othererror"

\* C6: when enhancement is enabled and the enhancement capability raises
\* for recognized text t, the result of transcribe_audio has text t, and
\* no exception escapes.
C6_EnhancementFallback ==
    \A i \in DoneTasks :
        tasks[i].enhanced = EnhanceRaises =>
            /\ ~tasks[i].raised
            /\ tasks[i].result.text = tasks[i].raw

\* C7: a window flush is triggered in the handling of the first chunk at
\* which the buffered duration reaches the target window, and when that
\* handling returns the buffered duration is 0: so after every flush from
\* _handle_audio_chunk the duration is 0, and between calls the buffered
\* duration is below the target.
C7_FlushAtFirstCrossing ==
    /\ lastFlush.caller = "chunk" =>
           lastFlush.durBefore >= target_duration /\ lastFlush.durAfter = 0
    /\ buffer_duration < target_duration

\* C8: buffer_duration equals the sum of the durations of the chunks in
\* audio_buffer after any sequence of add_chunk, process_buffer and
\* clear_buffer calls, and after a flush that returned an artifact the
\* buffer is empty and its duration is 0.
C8_DurationIsSum ==
    /\ buffer_duration = SumDurations(audio_buffer)
    /\ lastFlush.wav # NoArtifact =>
           lastFlush.lenAfter = 0 /\ lastFlush.durAfter = 0

\* C8 witness: a flush of several chunks returned an artifact, and chunks
\* were added after it.
C8_Witness ==
    /\ Len(lastFlush.wav) >= 2
    /\ lastFlush.durBefore > 0
    /\ Len(audio_buffer) >= 1
    /\ buffer_duration > 0

\* C9 as stated: every call of process_buffer in a session happens when
\* the buffered duration is at least the target window.
C9_FlushOnlyAtTarget ==
    lastFlush.n > 0 => lastFlush.durBefore >= target_duration

\* C9 amended: every call of process_buffer made by _handle_audio_chunk
\* happens when the buffered duration is at least the target window; the
\* call made by stop() happens when the buffered duration is above 0.
C9_FlushAtTargetOrAtStop ==
    /\ lastFlush.caller = "chunk" => lastFlush.durBefore >= target_duration
    /\ lastFlush.caller = "stop" => lastFlush.durBefore > 0
    /\ lastFlush.n > 0 => lastFlush.caller \in {"chunk", "stop"}

\* C9 witness: _handle_audio_chunk flushed with the buffered duration at
\* exactly the target, and later stop() flushed a partial window.
C9_Witness ==
    /\ lastFlush.caller = "stop"
    /\ lastFlush.durBefore < target_duration
    /\ lastFlush.n >= 2

\* C10: when stop() is called on an active session with a partially filled
\* window, then when stop() has returned the capture is stopped, the
\* partial window was flushed into one artifact that was dispatched for
\* transcription, and the buffer is empty with duration 0.
C10_StopFlushesPartialWindow ==
    (lastFlush.caller = "stop" /\ ~is_active) =>
        /\ ~is_recording
        /\ lastFlush.wav # NoArtifact
        /\ lastFlush.task \in DOMAIN tasks
        /\ audio_buffer = <<>>
        /\ buffer_duration = 0


\* the entries of the result log that task i appended
EntriesOf(i) == {k \in DOMAIN transcriptions : transcriptions[k].task = i}

AllTasksDone == \A i \in DOMAIN tasks : tasks[i].pc = "done"

\* C11: stop() cancels no task: under a running event loop, whenever a
\* dispatched transcription task has not completed, eventually every
\* dispatched task has completed; a completed task has exactly one entry in
\* the result log and a task that has not completed has none, whether or
\* not the session is still active.
C11_TasksCompleteOnce ==
    /\ [](\A i \in DOMAIN tasks :
            Cardinality(EntriesOf(i)) = IF tasks[i].pc = "done" THEN 1 ELSE 0)
    /\ (~AllTasksDone) ~> AllTasksDone

\* the window that stop() flushed was transcribed and logged after stop()
\* had returned
C11_Witness ==
    /\ ~is_active
    /\ lastFlush.caller = "stop"
    /\ lastFlush.task \in DoneTasks
    /\ Cardinality(EntriesOf(lastFlush.task)) = 1

\* C12: every entry of the result log carries the relative timestamp of its
\* own window, the clock at the flush of that window minus the start of the
\* session that flushed it, in whatever order the tasks completed.
C12_EntriesCarryOwnTimestamp ==
    \A k \in DOMAIN transcriptions :
        LET t == tasks[transcriptions[k].task]
        IN  transcriptions[k].relative_timestamp = t.flushedAt - t.startedAt

\* two tasks of one session were in flight and the result of the later
\* window was appended first: the log is not sorted by relative_timestamp
C12_Witness ==
    \E k, l \in DOMAIN transcriptions :
        /\ k < l
        /\ transcriptions[k].task > transcriptions[l].task
        /\ tasks[transcriptions[k].task].session = tasks[transcriptions[l].task].session
        /\ transcriptions[k].relative_timestamp > transcriptions[l].relative_timestamp

\* the payloads of a sequence of artifacts, one after the other
RECURSIVE Flatten(_)
Flatten(list) == IF list = <<>> THEN <<>> ELSE Head(list) \o Flatten(Tail(list))

\* C13: after any sequence of add_chunk and process_buffer calls on one
\* thread (no clear_buffer call from outside), the payloads of the returned
\* artifacts in the order of their return, followed by the payloads still
\* buffered, are the added chunks 1..chunkCount in the order of their
\* arrival: no chunk is lost, duplicated or reordered.
C13_CaptureOrder ==
    ~artifacts.cleared =>
        Flatten(artifacts.list) \o [i \in 1..Len(audio_buffer) |-> audio_buffer[i].id]
            = [i \in 1..chunkCount |-> i]

\* an artifact of two chunks was returned and a later chunk is buffered
C13_Witness ==
    /\ ~artifacts.cleared
    /\ \E a \in DOMAIN artifacts.list : Len(artifacts.list[a]) >= 2
    /\ audio_buffer # <<>>

\* C15: when the device cannot be opened, the start() that tried it ended
\* with the exception of start_capture, and no capture is running: the
\* capture is not recording and holds no stream.
C15_OpenFailureSurfaces ==
    ~lastStart.openOk => lastStart.raised /\ ~is_recording /\ ~stream

\* a start() whose device did not open has raised
C15_Witness == ~lastStart.openOk /\ lastStart.raised /\ sessions >= 1

\* C17: in a session that follows an earlier one, every entry of the result
\* log belongs to a task that the current session dispatched.
C17_LogPerSession ==
    (is_active /\ sessions >= 2) =>
        \A k \in DOMAIN transcriptions : tasks[transcriptions[k].task].session = sessions

\* C18: with speaker identification enabled, the result of every call that
\* got an answer from the speech-to-text capability (text, no speech or
\* request error) carries a speaker label.
C18_SpeakerOnEveryResult ==
    enable_speaker_identification =>
        \A i \in DoneTasks :
            (~tasks[i].raised /\ tasks[i].stt \in {"text", "nospeech", "requesterror"})
                => tasks[i].result.speaker # Absent

\* C16: a read that fails on an open stream yields no chunk and leaves the
\* reader going: read_chunk returns None with the capture still recording
\* and its stream still set, the record loop appends nothing and stays in
\* its loop with the stream open; a read that succeeds, also after
\* failures, yields a chunk (read_chunk returns it, the loop appends it).
C16_ReadFailureNonFatal ==
    /\ lastRead.outcome = "readerror" =>
          lastRead.result = "None" /\ lastRead.recordingAfter /\ lastRead.streamAfter
    /\ lastRead.outcome = "ok" => lastRead.result = "chunk"
    /\ rec.lastLoop.outcome = "readerror" =>
          /\ rec.lastLoop.lenAfter = rec.lastLoop.lenBefore
          /\ rec.lastLoop.pcAfter = "loop"
          /\ rec.lastLoop.streamAfter = "open"
    /\ rec.lastLoop.outcome = "ok" => rec.lastLoop.lenAfter = rec.lastLoop.lenBefore + 1

\* both readers got a chunk after a read of the same stream had failed
C16_Witness ==
    /\ lastRead.outcome = "ok" /\ lastRead.failures >= 1
    /\ rec.lastLoop.outcome = "ok" /\ rec.lastLoop.failures >= 1

\* the payload a thread has taken out of the buffer and not yet returned
InFlight(x) == IF th[x].pc \in {"clear", "zero", "emit"} THEN th[x].wav ELSE <<>>
\* how often chunk id occurs in the sequence of payloads q
Occurrences(q, id) == Cardinality({k \in DOMAIN q : q[k] = id})

\* C14: with the callback and stop() on different threads, every chunk that
\* was appended to the window buffer is in at most one returned artifact,
\* and is either in a returned artifact, or in the artifact a thread is
\* about to return, or still in the buffer: none is dropped and none is
\* emitted twice.
C14_ExactlyOneArtifact ==
    \A k \in DOMAIN th.accepted :
        LET id == th.accepted[k]
        IN  /\ Occurrences(Flatten(artifacts.list), id) <= 1
            /\ Occurrences(Flatten(artifacts.list) \o InFlight("callback")
                             \o InFlight("stopper")
                             \o [i \in 1..Len(audio_buffer) |-> audio_buffer[i].id], id) >= 1

SimpleLabels == <<"Hablante 1", "Hablante 2", "Hablante 3">>
\* the number of thresholds (0.3, 0.6) the energy has reached, plus one
Tier(energy) == 1 + (IF energy >= 30 THEN 1 ELSE 0) + (IF energy >= 60 THEN 1 ELSE 0)

\* C19: without a style classifier, _identify_speaker returns for every
\* text, also an empty or absent one, the label of the tier of the energy:
\* the first label below 0.3, the second from 0.3 to below 0.6, the third
\* from 0.6 on; the label is a non-decreasing function of the energy alone.
C19_SimpleModeThresholds ==
    (cls.done /\ ~EnhancementOn) => cls.label = SimpleLabels[Tier(cls.energy)]

\* a call without classifier, with a text, at the threshold 0.6
C19_Witness ==
    /\ cls.done /\ ~EnhancementOn
    /\ cls.text = "hola" /\ cls.energy = 60 /\ cls.label = "Hablante 3"

ParticipantLabels == <<"Participante 1", "Participante 2", "Participante 3", "Participante 4">>

\* C20: in contextual mode (classifier available, text non-empty and not
\* the no-speech sentinel, style request answered), the style FORMAL or
\* TECNICO gives "Presentador" when energy > 0.5 and "Moderador" otherwise,
\* and any other style gives "Participante n" with n = floor(energy*3)+1.
C20_ContextualLabels ==
    (cls.done /\ EnhancementOn /\ cls.text \notin {Absent, "", Inaudible}
              /\ cls.style # StyleRaises) =>
        cls.label = IF cls.style \in {"FORMAL", "TECNICO"}
                    THEN (IF cls.energy > 50 THEN "Presentador" ELSE "Moderador")
                    ELSE ParticipantLabels[((cls.energy * 3) \div 100) + 1]

\* a contextual call with style TECNICO at energy 0.5: the moderator
C20_Witness ==
    /\ cls.done /\ EnhancementOn
    /\ cls.text = "hola" /\ cls.style = "TECNICO" /\ cls.energy = 50
    /\ cls.label = "Moderador"

\* C21: when the style request fails in the contextual branch, the call of
\* _identify_speaker returns (no exception leaves it) and its label is the
\* label of the simple mode for the same energy.
C21_ClassifierFailureFallsBack ==
    (cls.done /\ EnhancementOn /\ cls.text \notin {Absent, "", Inaudible}
              /\ cls.style = StyleRaises) =>
        cls.label = SimpleLabels[Tier(cls.energy)]

\* a contextual call whose style request failed, at energy 0.45
C21_Witness ==
    /\ cls.done /\ EnhancementOn
    /\ cls.text = "hola" /\ cls.style = StyleRaises /\ cls.energy = 45
    /\ cls.label = "Hablante 2"

\* C22: when the feature extraction fails, the energy used is 0 and the
\* speaker label is the label of the simple mode for energy 0.
C22_ExtractionFailureSimpleLabel ==
    (cls.done /\ cls.feat = ExtractFailed) =>
        cls.energy = 0 /\ cls.label = SimpleLabels[Tier(0)]

\* C23: a call of generate_meeting_summary with the AI capability disabled,
\* or whose transcript is empty after its filter, makes no summarization
\* request and returns one of the two fixed messages.
C23_NoSummaryRequest ==
    (digest.op = "summary" /\ (~EnhancementOn \/ digest.transcript = <<>>)) =>
        /\ digest.llmCalls = 0
        /\ digest.message \in {SummaryUnavailable, SummaryNoContent}

\* with the AI capability on, a log that is not empty left nothing after
\* the filter and no request was made
C23_Witness ==
    /\ digest.op = "summary" /\ EnhancementOn
    /\ digest.log # <<>> /\ digest.transcript = <<>>
    /\ digest.llmCalls = 0 /\ digest.message = SummaryNoContent

Sentinels == {Inaudible, ErrorTranscripcion, ErrorGeneric}

\* C24: the transcript generate_meeting_summary sends to the summarization
\* capability holds no entry whose text is empty or one of the sentinels
\* "[Inaudible]", "[Error de transcripción]", "[Error]".
C24_SummarySkipsSentinels ==
    digest.op = "summary" =>
        \A k \in DOMAIN digest.transcript :
            digest.transcript[k].text \notin Sentinels \cup {""}

NotSentinel(r) == r.text \notin Sentinels

\* C25: in the report of format_transcription no content line is a
\* sentinel result, and the transcribed-segment count, the word count and
\* the mean confidence are those of the log with the sentinel results left
\* out (the mean being 0 when nothing is left).
C25_ReportSkipsSentinels ==
    digest.op = "report" =>
        LET transcribed == SelectSeq(digest.log, NotSentinel)
        IN  /\ \A k \in DOMAIN digest.lines : digest.lines[k].text \notin Sentinels
            /\ digest.segments = Len(transcribed)
            /\ digest.words = SumWords(transcribed)
            /\ digest.mean = MeanConfidence(transcribed)

\* C26: no call of get_audio_level ends with an exception.
C26_LevelNeverRaises == lastLevel \in {"none", "0.0"}

\* C27: a call of process_buffer that finds the buffer empty returns no
\* artifact and changes nothing: audio_buffer and buffer_duration keep their
\* values, no artifact is returned or saved and no task is dispatched by
\* the _process_current_buffer that made the call.
C27_EmptyFlushIsNoOp ==
    [][\A x \in ThreadNames :
          (th[x].pc = "empty" /\ th'[x].pc # "empty" /\ audio_buffer = <<>>) =>
              /\ th'[x].pc = "idle"
              /\ audio_buffer' = audio_buffer
              /\ buffer_duration' = buffer_duration
              /\ artifacts' = artifacts
              /\ tasks' = tasks]_vars

\* a flush found the buffer empty (the other thread had just emptied it)
C27_Witness ==
    /\ th.flushedEmpty
    /\ \E x \in ThreadNames : th[x].pc = "idle"

\* C28: after a start() whose device did not open, the session is inactive,
\* so that a later start() opens the device again.
C28_FailedStartLeavesInactive ==
    (lastStart.raised /\ ~stream) => ~is_active

\* C29: within a session, two flushed windows are never persisted under the
\* same artifact path, also when both flushes fall in the same clock second.
C29_DistinctArtifactPaths ==
    \A i, j \in DOMAIN tasks :
        (i < j /\ tasks[i].origin = "session" /\ tasks[j].origin = "session"
               /\ tasks[i].session = tasks[j].session)
            => tasks[i].path # tasks[j].path

\* C30: in the thread-based manager, every chunk the recording thread
\* appended to current_audio_data is in at most one saved artifact, and is
\* either in a saved artifact, or in the copy the periodic thread is about
\* to save, or still in current_audio_data: none is lost between the copy
\* and the reset of _process_audio_chunk.
C30_AppendedSavedExactlyOnce ==
    \A k \in DOMAIN rec.appended :
        LET id == rec.appended[k]
        IN  /\ Occurrences(Flatten(rec.saved), id) <= 1
            /\ Occurrences(Flatten(rec.saved) \o rec.copy \o rec.current_audio_data, id) >= 1

\* C31: once stop() has returned and until the next start(), the window
\* buffer is empty, also when a callback was past its is_active check when
\* stop() ran (array payloads, whose encoding succeeds).
C31_BufferEmptyAfterStop ==
    (sessions >= 1 /\ ~is_active /\ th.stopper.pc = "idle" /\ data_kind = "ndarray")
        => (audio_buffer = <<>> /\ buffer_duration = 0)

\* C32: every flush of _process_current_buffer that produced an artifact,
\* in a session started with any integer meeting id (0 included), has
\* persisted the artifact under the session's name and dispatched one
\* transcription task for it.
C32_FlushPersistsAndDispatches ==
    (lastFlush.n >= 1 /\ lastFlush.wav # NoArtifact) =>
        /\ lastFlush.task \in DOMAIN tasks
        /\ tasks[lastFlush.task].origin = "session"
        /\ tasks[lastFlush.task].path.m = meeting_id

\* the buffer b extended by at most the chunk that was just added
KeepsChunks(b, c) == Len(c) >= Len(b) /\ SubSeq(c, 1, Len(b)) = b

\* C33: a flush whose encoding fails returns no artifact and leaves the
\* buffered chunks and buffer_duration as they were (nothing is saved or
\* dispatched); no accepted chunk is ever lost, so the chunks are part of
\* the next artifact; and once the duration has reached the target, every
\* following accepted chunk triggers a flush attempt again.
C33_FailedEncodingKeepsBuffer ==
    /\ [](Flatten(artifacts.list) \o [i \in 1..Len(audio_buffer) |-> audio_buffer[i].id]
            = [i \in 1..chunkCount |-> i])
    /\ [][(lastFlush'.n = lastFlush.n + 1 /\ lastFlush'.wav = NoArtifact) =>
              /\ KeepsChunks(audio_buffer, audio_buffer')
              /\ audio_buffer' # <<>>
              /\ buffer_duration' = lastFlush'.durBefore
              /\ buffer_duration' = SumDurations(audio_buffer')
              /\ artifacts' = artifacts
              /\ tasks' = tasks]_vars
    /\ [][(chunkCount' = chunkCount + 1 /\ FlushDue(buffer_duration)) =>
              lastFlush'.n = lastFlush.n + 1]_vars

\* the encoding failed, a following chunk triggered the flush again, and
\* the chunks are all still buffered
C33_Witness ==
    /\ lastFlush.n >= 2
    /\ lastFlush.caller = "chunk"
    /\ lastFlush.wav = NoArtifact
    /\ Len(audio_buffer) = 3
    /\ buffer_duration = SumDurations(audio_buffer)

\* C34: a start() that finds the session active returns at its check and
\* leaves meeting_id, start_time, is_active, the buffer and the capture
\* stream as they were; a stop() that finds the session inactive returns at
\* its check: it flushes nothing and dispatches nothing.
C34_RedundantCallsAreNoOps ==
    [][(lastStart'.ignored /\ ~lastStart.ignored) =>
          /\ UNCHANGED <<meeting_id, start_time, is_active, audio_buffer, buffer_duration,
                         stream, is_recording, sessions>>
          /\ UNCHANGED <<lastFlush, tasks, artifacts, transcriptions>>]_vars

\* a second start() was ignored by an active session that holds a chunk
C34_Witness ==
    /\ lastStart.ignored
    /\ is_active
    /\ audio_buffer # <<>>

\* C35: stop_recording terminates: once it has set is_recording to false,
\* both threads leave their loops, both joins return and stop_recording
\* returns; when it returns, current_audio_data is empty and no thread is
\* left running.
C35_StopRecordingTerminates ==
    /\ (rec.caller = "joining") ~> (rec.caller = "idle")
    /\ [][(rec.caller = "joining" /\ rec'.caller = "idle") =>
              /\ rec'.current_audio_data = <<>>
              /\ rec'.record \in {"none", "finished"}
              /\ rec'.periodic \in {"none", "finished"}
              /\ ~rec'.is_recording]_vars

\* stop_recording returned after both threads had run, and the audio that
\* was recorded is saved
C35_Witness ==
    /\ rec.caller = "idle"
    /\ ~rec.is_recording
    /\ rec.record = "finished"
    /\ rec.periodic = "finished"
    /\ rec.current_audio_data = <<>>
    /\ Len(rec.saved) >= 2

\* C36: once start_audio_capture for a meeting has answered with success,
\* the audio manager captures for that meeting (its meeting_id, from which
\* the artifacts are named, is the requested one), also when a capture for
\* another meeting was active at the call.
C36_CaptureFollowsRequest ==
    (lastStart.requested # NoMeeting /\ start_audio_capture_response = 200)
        => meeting_id = lastStart.requested

\* C37: start_transcription of an existing meeting whose transcription is
\* not started (a meeting just created, or one that was stopped) succeeds,
\* and stop_transcription succeeds only for a meeting whose transcription
\* was started and not stopped.
C37_CreatedMeetingCanStart ==
    /\ (db.last.op = "start_transcription" /\ db.status[db.last.meeting] # "none"
            /\ ~db.last.started) => db.last.code = 200
    /\ (db.last.op = "stop_transcription" /\ db.last.code = 200) => db.last.started

\* C38: after any sequence of start_capture and stop_capture calls, failed
\* opens included, the AudioCapture is recording exactly when it holds an
\* open stream; a start_capture while recording and a stop_capture while
\* not recording change nothing (and the former does not raise).
C38_RecordingIffStream ==
    /\ is_recording <=> stream
    /\ is_recording =>
          \A openOk \in BOOLEAN :
              start_capture(Capture, openOk)
                  = [is_recording |-> is_recording, stream |-> stream, raised |-> FALSE]
    /\ ~is_recording => stop_capture(Capture) = Capture

\* the open failed in a start_capture that followed an earlier start
C38_Witness ==
    /\ sessions >= 2
    /\ lastStart.raised
    /\ ~is_recording
    /\ ~stream

\* C39: a read_chunk that returns while the capture is not recording has
\* returned None, also when stop_capture ran between its recording check
\* and its device read.
C39_NoChunkWhenNotRecording ==
    (lastRead.n >= 1 /\ lastRead.pc = "idle" /\ ~lastRead.recordingAfter)
        => lastRead.result = "None"

====
